---- MODULE Spec2Model ----
(***************************************************************************)
(* The Scanner component (src/components/SplashScreen.tsx): the extraction *)
(* cascade startScan, the three detectors, the resolver performAnalysis    *)
(* and the pasted-text entry point handlePasteAnalysis; and the route      *)
(* handler POST (src/app/page.tsx).                                        *)
(*                                                                         *)
(* A JavaScript string is a sequence of one-character strings, so that     *)
(* trim, toLowerCase, includes, replace, match, split and slice are        *)
(* computed character by character as the engine computes them.  A reason  *)
(* string is the sequence of the pieces it is assembled from.              *)
(***************************************************************************)
EXTENDS Integers, Sequences, FiniteSets, TLC

\* ------------------------------------------------------------------------
\* State
\* ------------------------------------------------------------------------

VARIABLES
    scanStatus,     \* useState 'idle' | 'scanning' | 'analyzing' | 'complete'
    progress,       \* useState(0)
    extractedText,  \* useState('')
    aiSegments,     \* useState([])
    aiPercentage,   \* useState(0)
    reasoning,      \* useState('')
    pastedText,     \* useState('')
    run,            \* the frame of the run started last
    stale,          \* the frame of a run started before it and still in flight
    probe,          \* the pieces of the text a detector is applied to alone
    probeOut,       \* what the detector returned for it
    request,        \* the frame of the request the route handler POST serves
    response        \* what POST answered to it

vars == <<scanStatus, progress, extractedText, aiSegments, aiPercentage,
          reasoning, pastedText, run, stale, probe, probeOut, request,
          response>>

probeVars == <<probe, probeOut>>

\* What the actions of the run started last leave alone.
otherVars == <<stale, probe, probeOut, request, response>>

published == <<extractedText, aiSegments, aiPercentage, reasoning>>

\* ------------------------------------------------------------------------
\* String primitives
\* ------------------------------------------------------------------------

\* The characters the regular-expression class \s and String.trim remove.
WhiteSpace == {" ", "\n", "\t"}

\* The characters of the class [.!?].
Terminal == {".", "!", "?"}

UpperChars == <<"A","B","C","D","E","F","G","H","I","J","K","L","M",
                "N","O","P","Q","R","S","T","U","V","W","X","Y","Z">>

LowerChars == <<"a","b","c","d","e","f","g","h","i","j","k","l","m",
                "n","o","p","q","r","s","t","u","v","w","x","y","z">>

\* A string literal kept whole (a fixed message of the program).
Lit(str) == <<str>>

Min2(a, b) == IF a < b THEN a ELSE b

\* String.prototype.toLowerCase
toLowerCase(s) ==
    [i \in 1..Len(s) |->
        IF \E k \in 1..Len(UpperChars) : UpperChars[k] = s[i]
        THEN LowerChars[CHOOSE k \in 1..Len(UpperChars) : UpperChars[k] = s[i]]
        ELSE s[i]]

\* The text with its first letter in upper case (how a sentence starts).
Capitalize(s) ==
    [i \in 1..Len(s) |->
        IF i = 1 /\ \E k \in 1..Len(LowerChars) : LowerChars[k] = s[i]
        THEN UpperChars[CHOOSE k \in 1..Len(LowerChars) : LowerChars[k] = s[i]]
        ELSE s[i]]

\* String.prototype.trim
trim(s) ==
    LET solid == SelectSeq([i \in 1..Len(s) |-> i],
                     LAMBDA i : s[i] \notin WhiteSpace)
    IN  IF solid = <<>> THEN <<>>
        ELSE SubSeq(s, solid[1], solid[Len(solid)])

\* String.prototype.includes
includes(s, p) ==
    \E i \in 1..(Len(s) - Len(p) + 1) : SubSeq(s, i, i + Len(p) - 1) = p

\* String.prototype.slice(0, n)
slice0(s, n) == SubSeq(s, 1, Min2(Len(s), n))

\* The indices of s, in order.
indices(s) == [i \in 1..Len(s) |-> i]

\* s.replace(/\s+/g, ' '): every maximal run of white space becomes one space.
replaceWs(s) ==
    LET kept == SelectSeq(indices(s),
                    LAMBDA i : \/ s[i] \notin WhiteSpace
                               \/ i = 1
                               \/ s[i - 1] \notin WhiteSpace)
    IN  [k \in 1..Len(kept) |->
            IF s[kept[k]] \in WhiteSpace THEN " " ELSE s[kept[k]]]

\* s.match(/[^.!?]+[.!?]+/g): each maximal run of non-terminal characters
\* that is followed by a terminal one, with all the terminal characters that
\* follow it.  A run of terminal characters at the very start of s belongs
\* to no match, and neither does what follows the last terminal character.
\* The empty sequence stands for null.
matchSentences(s) ==
    LET runEnds == SelectSeq(indices(s),
                       LAMBDA i : /\ s[i] \in Terminal
                                  /\ (i = Len(s) \/ s[i + 1] \notin Terminal))
        leading == s # <<>> /\ s[1] \in Terminal
        ends    == IF leading THEN Tail(runEnds) ELSE runEnds
        first   == IF leading THEN runEnds[1] + 1 ELSE 1
    IN  [m \in 1..Len(ends) |->
            SubSeq(s, IF m = 1 THEN first ELSE ends[m - 1] + 1, ends[m])]

\* s.split(' '): the pieces between single spaces, the empty ones included.
split(s) ==
    LET spaces == SelectSeq(indices(s), LAMBDA i : s[i] = " ")
        n == Len(spaces)
    IN  [m \in 1..(n + 1) |->
            SubSeq(s, IF m = 1 THEN 1 ELSE spaces[m - 1] + 1,
                      IF m = n + 1 THEN Len(s) ELSE spaces[m] - 1)]

RECURSIVE SumSeq(_)
SumSeq(q) == IF q = <<>> THEN 0 ELSE Head(q) + SumSeq(Tail(q))

\* ------------------------------------------------------------------------
\* Detectors
\* ------------------------------------------------------------------------

\* aiPhrases, in the order of the list.
aiPhrases == <<
    <<"a","s"," ","a","n"," ","a","i"," ","l","a","n","g","u","a","g","e"," ","m","o","d","e","l">>,  \* as an ai language model
    <<"r","e","g","e","n","e","r","a","t","e"," ","r","e","s","p","o","n","s","e">>,  \* regenerate response
    <<"l","a","n","g","u","a","g","e"," ","m","o","d","e","l">>,  \* language model
    <<"i","t"," ","i","s"," ","i","m","p","o","r","t","a","n","t"," ","t","o"," ","n","o","t","e">>,  \* it is important to note
    <<"i","n"," ","s","u","m","m","a","r","y">>,  \* in summary
    <<"i","n"," ","c","o","n","c","l","u","s","i","o","n">>,  \* in conclusion
    <<"m","o","r","e","o","v","e","r">>,  \* moreover
    <<"f","u","r","t","h","e","r","m","o","r","e">>,  \* furthermore
    <<"c","o","n","s","e","q","u","e","n","t","l","y">>,  \* consequently
    <<"o","n"," ","t","h","e"," ","o","t","h","e","r"," ","h","a","n","d">>,  \* on the other hand
    <<"a","d","d","i","t","i","o","n","a","l","l","y">>,  \* additionally
    <<"h","o","w","e","v","e","r">>,  \* however
    <<"t","h","u","s">>,  \* thus
    <<"t","h","e","r","e","f","o","r","e">>,  \* therefore
    <<"s","i","g","n","i","f","i","c","a","n","t","l","y">>,  \* significantly
    <<"n","o","t","a","b","l","y">>,  \* notably
    <<"c","r","u","c","i","a","l"," ","t","o">>,  \* crucial to
    <<"e","s","s","e","n","t","i","a","l"," ","t","o">>,  \* essential to
    <<"p","a","r","a","m","o","u","n","t"," ","i","m","p","o","r","t","a","n","c","e">>,  \* paramount importance
    <<"d","e","l","v","e","s"," ","i","n","t","o">>,  \* delves into
    <<"u","n","d","e","r","s","c","o","r","e">>,  \* underscore
    <<"e","m","p","h","a","s","i","z","e">>,  \* emphasize
    <<"c","o","m","p","r","e","h","e","n","s","i","v","e">>,  \* comprehensive
    <<"l","a","n","d","s","c","a","p","e"," ","o","f">>,  \* landscape of
    <<"r","e","a","l","m"," ","o","f">>,  \* realm of
    <<"t","a","p","e","s","t","r","y">>,  \* tapestry
    <<"n","u","a","n","c","e","d">>,  \* nuanced
    <<"m","u","l","t","i","f","a","c","e","t","e","d">>,  \* multifaceted
    <<"p","i","v","o","t","a","l"," ","r","o","l","e">>,  \* pivotal role
    <<"k","e","y"," ","a","s","p","e","c","t","s">>,  \* key aspects
    <<"w","o","r","t","h"," ","n","o","t","i","n","g">>,  \* worth noting
    <<"b","y"," ","a","n","d"," ","l","a","r","g","e">>,  \* by and large
    <<"i","n"," ","e","s","s","e","n","c","e">>  \* in essence
>>

\* foundPhrases: the phrases of the list that occur in lower, in list order.
foundPhrases(lower) ==
    SelectSeq(aiPhrases, LAMBDA p : includes(lower, toLowerCase(p)))

\* A checkAIPatterns that does not lower the case of the text.
checkAIPatternsCased(text) ==
    LET found == foundPhrases(text)
        foundCount == Len(found)
    IN  IF foundCount > 0
        THEN [score  |-> IF foundCount > 1 THEN 98 ELSE 65,
              reason |-> <<Lit("Detected AI-typical phrasing:")>> \o slice0(found, 3)]
        ELSE [score |-> 0, reason |-> <<>>]

\* checkAIPatterns(text)
checkAIPatterns(text) ==
    LET lower == toLowerCase(text)
        found == foundPhrases(lower)
        foundCount == Len(found)
    IN  IF foundCount > 0
        THEN [score  |-> IF foundCount > 1 THEN 98 ELSE 65,
              reason |-> <<Lit("Detected AI-typical phrasing:")>>
                            \o slice0(found, 3)]
        ELSE [score |-> 0, reason |-> <<>>]

\* cleanText: text.replace(/\s+/g, ' ').trim()
cleanText(text) == trim(replaceWs(text))

\* sentences: cleanText.match(/[^.!?]+[.!?]+/g) || [cleanText]
statSentences(text) ==
    LET m == matchSentences(cleanText(text))
    IN  IF m = <<>> THEN <<cleanText(text)>> ELSE m

\* lengths: sentences.map(s => s.split(' ').length)
statLengths(text) ==
    LET sentences == statSentences(text)
    IN  [k \in 1..Len(sentences) |-> Len(split(sentences[k]))]

\* A localStatisticalAnalysis that adds 30 whenever burstiness is not below 6.
statVerdictNoBound(lengths, wordLengths) ==
    LET n == Len(lengths)
        S == SumSeq(lengths)
        Q == SumSeq([k \in 1..n |-> lengths[k] * lengths[k]])
        C == SumSeq(wordLengths)
        w == Len(wordLengths)
        sweet == S > 12 * n /\ S < 28 * n
        uniform == n * Q - S * S < 36 * n * n
        regular == TRUE
        bigWords == C > 5 * w
        score == 20 + (IF sweet THEN 20 ELSE 0)
                    + (IF uniform THEN 55 ELSE IF regular THEN 30 ELSE 0)
                    + (IF bigWords THEN 10 ELSE 0)
        reasons ==
            (IF sweet
             THEN <<Lit("Average sentence length matches AI patterns.")>>
             ELSE <<>>)
            \o (IF uniform
                THEN <<Lit("Sentence structure is unnaturally uniform (Robotic).")>>
                ELSE IF regular
                THEN <<Lit("Lacks human-like variation in sentence length.")>>
                ELSE <<>>)
    IN  [score  |-> Min2(score, 100),
         reason |-> IF reasons = <<>> THEN <<Lit("Text seems robotic.")>>
                    ELSE reasons]

\* The verdict of localStatisticalAnalysis from lengths and the lengths of
\* words.  avgLen = S / n, variance = (n*Q - S*S) / (n*n) and avgWordLen =
\* C / w are compared with the thresholds as exact fractions, and burstiness
\* = sqrt(variance) through its square.
statVerdict(lengths, wordLengths) ==
    LET n == Len(lengths)
        S == SumSeq(lengths)
        Q == SumSeq([k \in 1..n |-> lengths[k] * lengths[k]])
        C == SumSeq(wordLengths)
        w == Len(wordLengths)
        sweet == S > 12 * n /\ S < 28 * n
        uniform == n * Q - S * S < 36 * n * n
        regular == n * Q - S * S < 144 * n * n
        bigWords == C > 5 * w
        score == 20 + (IF sweet THEN 20 ELSE 0)
                    + (IF uniform THEN 55 ELSE IF regular THEN 30 ELSE 0)
                    + (IF bigWords THEN 10 ELSE 0)
        reasons ==
            (IF sweet
             THEN <<Lit("Average sentence length matches AI patterns.")>>
             ELSE <<>>)
            \o (IF uniform
                THEN <<Lit("Sentence structure is unnaturally uniform (Robotic).")>>
                ELSE IF regular
                THEN <<Lit("Lacks human-like variation in sentence length.")>>
                ELSE <<>>)
    IN  [score  |-> Min2(score, 100),
         reason |-> IF reasons = <<>> THEN <<Lit("Text seems robotic.")>>
                    ELSE reasons]

\* The one element of a set of one element.
the(S) == CHOOSE v \in S : TRUE

\* A statistical analysis without the base score of 20.
localStatisticalAnalysisNoBase(text) ==
    the({ [v EXCEPT !.score = @ - 20] :
            v \in { statVerdict(statLengths(text),
                                [k \in DOMAIN split(cleanText(text)) |->
                                     Len(split(cleanText(text))[k])]) } })

\* A statistical analysis that leans on the score on display: ten more
\* when that score is above one half.
localStatisticalAnalysisDrifting(text) ==
    the({ [v EXCEPT !.score = Min2(@ + (IF aiPercentage > 50 THEN 10 ELSE 0), 100)] :
            v \in { statVerdict(statLengths(text),
                                [k \in DOMAIN split(cleanText(text)) |->
                                     Len(split(cleanText(text))[k])]) } })

\* localStatisticalAnalysis(text); lengths and the words' lengths are
\* computed once.
localStatisticalAnalysis(text) ==
    the({ statVerdict(lengths, wordLengths) :
            lengths \in {statLengths(text)},
            wordLengths \in {[k \in DOMAIN split(cleanText(text)) |->
                                  Len(split(cleanText(text))[k])]} })

\* ------------------------------------------------------------------------
\* Inputs
\* ------------------------------------------------------------------------

\* A word of n letters that occurs in no phrase of the list.
Word(n) == [i \in 1..n |-> "x"]

\* A sentence of n words of k letters each, ended by a full stop.
Sentence(n, k) ==
    [i \in 1..(n * (k + 1)) |->
        IF i = n * (k + 1) THEN "." ELSE IF i % (k + 1) = 0 THEN " " ELSE "x"]

\* n spaces.
Blank(n) == [i \in 1..n |-> " "]

\* The texts an extraction strategy can return: nothing, a text too short, a
\* short text padded with white space to five characters, five spaces, and a
\* text of six characters.
OcrTexts ==
    { <<>>,
      <<"a","b","c","d">>,
      <<" ","a","b"," "," ">>,
      Blank(5),
      <<"a","b","c","d","e","f">> }

\* What the user can type into the paste box: white space only, a text with
\* two phrases of the list and a line end after it, and two texts with none
\* whose four sentences have 1, 1, 1 and 38 words, of one letter in the
\* first text and of six in the second.
PasteTexts ==
    { Blank(2),
      Capitalize(aiPhrases[6]) \o <<","," ">> \o Word(3) \o <<"."," ">>
          \o Capitalize(aiPhrases[8]) \o <<" ">> \o Word(3) \o <<".", "\n">>,
      Sentence(1, 1) \o <<" ">> \o Sentence(1, 1) \o <<" ">>
          \o Sentence(1, 1) \o <<" ">> \o Sentence(38, 1),
      Sentence(1, 6) \o <<" ">> \o Sentence(1, 6) \o <<" ">>
          \o Sentence(1, 6) \o <<" ">> \o Sentence(38, 6) }

\* Texts around the length the classifier requests are cut to: 102 words of
\* 4 letters make 510 characters; the same with one more letter; and the
\* same with a phrase of the list after them.
LongTexts ==
    { Sentence(102, 4),
      Sentence(102, 4) \o <<"x">>,
      Sentence(102, 4) \o <<" ">> \o Capitalize(aiPhrases[6]) \o <<".">> }

\* The probabilities, in thousandths, a classifier can give its AI label.
Probabilities == {500, 501, 750, 900, 996}

\* What one classifier request can come to: the request is rejected, the
\* response has a non-success status, its body is not JSON, its body is an
\* object instead of a list (json[0] is undefined), its body is a flat list
\* (json[0] has no find), the list has no AI label, or the AI label has
\* probability p.
ClassifierOutcomes ==
    { [kind |-> k, p |-> 0] :
        k \in {"reject", "status", "badjson", "object", "flat", "nolabel"} }
    \cup { [kind |-> "label", p |-> p] : p \in Probabilities }

\* The pairs of classifier outcomes of the specification Spec, and the full
\* grid of the specification SpecAnalysis.
FewPairs ==
    { <<[kind |-> "status", p |-> 0], [kind |-> "reject", p |-> 0]>>,
      <<[kind |-> "label", p |-> 900], [kind |-> "nolabel", p |-> 0]>>,
      <<[kind |-> "label", p |-> 501], [kind |-> "label", p |-> 996]>> }

AllPairs == ClassifierOutcomes \X ClassifierOutcomes

\* What strategy 1 can come to: the request is rejected, a non-success
\* status, a body that is not JSON, a body that is no list with a
\* generated_text, or a generated_text.
Strategy1Outcomes ==
    { [kind |-> k, text |-> <<>>] : k \in {"reject", "status", "badjson", "shape"} }
    \cup { [kind |-> "text", text |-> t] : t \in OcrTexts }

\* What strategy 2 can come to: reading the file or the request is rejected,
\* a body that is not JSON, IsErroredOnProcessing, no ParsedResults, or a
\* ParsedText.
Strategy2Outcomes ==
    { [kind |-> k, text |-> <<>>] : k \in {"reject", "badjson", "errored", "empty"} }
    \cup { [kind |-> "text", text |-> t] : t \in OcrTexts }

\* What strategy 3 can come to: createWorker, setParameters, recognize or
\* terminate throws, or all four succeed; recognize gives the text.
Strategy3Outcomes ==
    { [kind |-> k, text |-> <<>>] : k \in {"create", "params", "recognize"} }
    \cup { [kind |-> k, text |-> t] : k \in {"terminate", "text"}, t \in OcrTexts }

\* checkAIPatterns and localStatisticalAnalysis over the texts a run can
\* analyse, computed once.
AnalysedTexts == OcrTexts \cup PasteTexts \cup LongTexts

patternResults == [t \in AnalysedTexts |-> checkAIPatterns(t)]

statResults == [t \in AnalysedTexts |-> localStatisticalAnalysis(t)]

\* The outcomes of the strategies in the specification SpecAnalysis: one
\* failure and one text each.
FewOutcomes1 ==
    { [kind |-> "reject", text |-> <<>>],
      [kind |-> "text", text |-> <<"a","b","c","d","e","f">>] }

FewOutcomes2 ==
    { [kind |-> "errored", text |-> <<>>],
      [kind |-> "text", text |-> <<"a","b","c","d","e","f">>] }

FewOutcomes3 ==
    { [kind |-> "recognize", text |-> <<>>],
      [kind |-> "text", text |-> <<"a","b","c","d">>] }

\* ------------------------------------------------------------------------
\* Frames
\* ------------------------------------------------------------------------

\* No verdict (null).
NoVerdict == [some |-> FALSE, score |-> 0, reason |-> <<>>, source |-> ""]

\* A strategy that has not been invoked.
NotRun == [st |-> "notrun", text |-> <<>>]

\* No detector applied yet.
NoOutput == [by |-> "none", score |-> 0, reason |-> <<>>]

\* No request in the handler, and no answer.
NoRequest ==
    [pc |-> "none", read |-> "none", apiKey |-> "undefined",
     image |-> "undefined", called |-> FALSE, mimeType |-> "", settled |-> "none", reply |-> <<>>]

NoResponse == [status |-> 0, error |-> FALSE, data |-> <<>>]

\* The frame of a run: its kind and the await it is suspended at (pc), what
\* was published when it started (before), the local extracted, the strategies invoked so far and how each ended (st is
\* "threw", "nosuccess" or "text"), the state of the OCR worker, whether
\* performAnalysis was called and with what text, and performAnalysis's
\* locals.
NoRun ==
    [kind          |-> "none",
     pc            |-> "done",
     before        |-> <<<<>>, <<>>, 0, <<>>>>,
     extracted     |-> <<>>,
     invoked       |-> <<>>,
     ret           |-> [i \in 1..3 |-> NotRun],
     worker        |-> "none",
     called        |-> FALSE,
     text          |-> <<>>,
     patternResult |-> NoVerdict,
     resA          |-> [kind |-> "none", p |-> 0],
     resB          |-> [kind |-> "none", p |-> 0],
     cloudResult   |-> NoVerdict,
     statResult    |-> NoVerdict,
     aiScore       |-> 0,
     aiReason      |-> <<>>]

Init ==
    /\ scanStatus = "idle"
    /\ progress = 0
    /\ extractedText = <<>>
    /\ aiSegments = <<>>
    /\ aiPercentage = 0
    /\ reasoning = <<>>
    /\ pastedText = <<>>
    /\ run = NoRun
    /\ stale = NoRun
    /\ probe = <<>>
    /\ probeOut = NoOutput
    /\ request = NoRequest
    /\ response = NoResponse

\* ------------------------------------------------------------------------
\* detectAI and performAnalysis
\* ------------------------------------------------------------------------

\* A detectAI that waits for both requests and reads a rejected one as
\* nothing.
detectThrowsBody(a, b) ==
    \/ a.kind \in {"badjson", "flat"}
    \/ b.kind \in {"badjson", "flat"}

\* Whether detectAI's try block throws: Promise.all rejects when either
\* request is rejected; resA.json() or json[0]?.find(...) throws; B's body is
\* read only when A's did not throw.
detectThrows(a, b) ==
    \/ a.kind = "reject"
    \/ b.kind = "reject"
    \/ a.kind \in {"badjson", "flat"}
    \/ b.kind \in {"badjson", "flat"}

\* The probability one response contributes: json[0]?.find(...)?.score || 0
\* when the response is ok, nothing otherwise.
fake(r) == IF r.kind = "label" THEN r.p ELSE 0

\* Math.floor in the place of Math.round.
floorPercent(m) == m \div 10

\* Math.round(maxScore * 100), maxScore in thousandths.
roundPercent(m) == (m + 5) \div 10

\* detectAI(text), given what the two requests come to.
detectAI(a, b) ==
    IF detectThrows(a, b) THEN NoVerdict
    ELSE LET afterA == IF fake(a) > 0 THEN [m |-> fake(a), source |-> "RoBERTa Model"]
                       ELSE [m |-> 0, source |-> ""]
             afterB == IF fake(b) > afterA.m
                       THEN [m |-> fake(b), source |-> "ChatGPT Detector"]
                       ELSE afterA
         IN  IF afterB.m > 500
             THEN [some   |-> TRUE,
                   score  |-> roundPercent(afterB.m),
                   reason |-> <<Lit("Deep Learning analysis flagged AI patterns.")>>,
                   source |-> afterB.source]
             ELSE NoVerdict

\* A resolver that lets the remote verdict win a tie with the statistical one.
resolveTie(patternResult, cloudResult, statResult) ==
    IF patternResult.score > 50
    THEN [score |-> patternResult.score, reason |-> patternResult.reason]
    ELSE IF cloudResult.some /\ cloudResult.score >= statResult.score
    THEN [score |-> cloudResult.score, reason |-> cloudResult.reason]
    ELSE [score |-> statResult.score, reason |-> statResult.reason]

\* The resolver of performAnalysis: which verdict's score and reason are used.
resolve(patternResult, cloudResult, statResult) ==
    IF patternResult.score > 50
    THEN [score |-> patternResult.score, reason |-> patternResult.reason]
    ELSE IF cloudResult.some /\ cloudResult.score > statResult.score
    THEN [score |-> cloudResult.score, reason |-> cloudResult.reason]
    ELSE [score |-> statResult.score, reason |-> statResult.reason]

\* A cap at 100 in the place of 99.
clampWide(aiScore) ==
    LET floored == IF aiScore < 10 THEN 15 ELSE aiScore
    IN  IF floored > 100 THEN 100 ELSE floored

\* The final cap and floor of performAnalysis.
clamp(aiScore) ==
    LET floored == IF aiScore < 10 THEN 15 ELSE aiScore
    IN  IF floored > 99 THEN 99 ELSE floored

\* performAnalysis(text) up to its await of detectAI: checkAIPatterns has
\* run and both classifier requests are issued.
beginAnalysis(r, text) ==
    [r EXCEPT !.pc = "cloud",
              !.called = TRUE,
              !.text = text,
              !.patternResult = patternResults[text]]

\* ------------------------------------------------------------------------
\* The extraction cascade
\* ------------------------------------------------------------------------

\* A guard that also sends a text of exactly five characters on.
needsNextInclusive(extracted) == extracted = <<>> \/ Len(extracted) <= 5

\* The guard of strategies 2 and 3: !extracted || extracted.length < 5
needsNext(extracted) == extracted = <<>> \/ Len(extracted) < 5

\* The final check of startScan: extracted && extracted.trim().length > 0
accepted(extracted) == extracted # <<>> /\ Len(trim(extracted)) > 0

\* How the frame records that strategy i ended.
ended(r, i, st, text) == [r EXCEPT !.ret[i] = [st |-> st, text |-> text]]

\* The frame with strategy i invoked.
invoke(r, i) == [r EXCEPT !.pc = IF i = 2 THEN "s2" ELSE "s3",
                          !.invoked = Append(@, i)]

\* A final check that shows analyzing while performAnalysis runs.
FinalCheckAnalyzing(r) ==
    IF accepted(r.extracted)
    THEN /\ extractedText' = r.extracted
         /\ run' = beginAnalysis(r, r.extracted)
         /\ scanStatus' = "analyzing"
    ELSE /\ scanStatus' = "idle"
         /\ run' = [r EXCEPT !.pc = "done"]
         /\ UNCHANGED extractedText

\* The end of startScan, from the final check on, for the frame r: the text
\* is published and performAnalysis called, or the run fails.
FinalCheck(r) ==
    IF accepted(r.extracted)
    THEN /\ extractedText' = r.extracted
         /\ run' = beginAnalysis(r, r.extracted)
         /\ UNCHANGED scanStatus
    ELSE /\ scanStatus' = "idle"
         /\ run' = [r EXCEPT !.pc = "done"]
         /\ UNCHANGED extractedText

\* A startScan whose strategy 2 has no catch: what strategy 2 throws ends
\* startScan there.
FromStrategy3Uncaught(r, p) ==
    IF r.ret[2].st = "threw"
    THEN /\ run' = [r EXCEPT !.pc = "done"]
         /\ UNCHANGED <<scanStatus, progress, extractedText>>
    ELSE IF needsNext(r.extracted)
    THEN /\ progress' = 60
         /\ run' = invoke(r, 3)
         /\ UNCHANGED <<scanStatus, extractedText>>
    ELSE /\ progress' = p
         /\ FinalCheck(r)

\* startScan from the guard of strategy 3 on: strategy 3 is invoked (the
\* progress is 60 then) or the final check made (the progress stays p).
FromStrategy3(r, p) ==
    IF needsNext(r.extracted)
    THEN /\ progress' = 60
         /\ run' = invoke(r, 3)
         /\ UNCHANGED <<scanStatus, extractedText>>
    ELSE /\ progress' = p
         /\ FinalCheck(r)

\* startScan from the guard of strategy 2 on.
FromStrategy2(r, p) ==
    IF needsNext(r.extracted)
    THEN /\ progress' = 40
         /\ run' = invoke(r, 2)
         /\ UNCHANGED <<scanStatus, extractedText>>
    ELSE FromStrategy3(r, p)

\* onDrop -> startScan(file) up to the request of strategy 1.  The drop zone
\* is rendered while scanStatus is idle.
OnDrop ==
    /\ scanStatus = "idle"
    /\ scanStatus' = "scanning"
    /\ progress' = 10
    /\ run' = [NoRun EXCEPT !.kind = "image", !.pc = "s1", !.invoked = <<1>>,
                             !.before = published]
    /\ UNCHANGED <<extractedText, aiSegments, aiPercentage, reasoning, pastedText>>
    /\ UNCHANGED otherVars

\* Strategy 1 settles with outcome o; startScan runs on to its next await or
\* to its end.
Strategy1Settled(o) ==
    /\ run.pc = "s1"
    /\ LET got == o.kind = "text" /\ o.text # <<>>
           st  == IF o.kind \in {"reject", "badjson"} THEN "threw"
                  ELSE IF o.kind = "text" THEN "text" ELSE "nosuccess"
           r   == [ended(run, 1, st, o.text) EXCEPT
                       !.extracted = IF got THEN o.text ELSE @]
       IN  FromStrategy2(r, IF got THEN 100 ELSE progress)
    /\ UNCHANGED <<aiSegments, aiPercentage, reasoning, pastedText>>
    /\ UNCHANGED otherVars

\* Strategy 2 settles with outcome o.
Strategy2Settled(o) ==
    /\ run.pc = "s2"
    /\ LET got == o.kind = "text"
           st  == IF o.kind \in {"reject", "badjson"} THEN "threw"
                  ELSE IF o.kind = "text" THEN "text" ELSE "nosuccess"
           r   == [ended(run, 2, st, o.text) EXCEPT
                       !.extracted = IF got THEN o.text ELSE @]
       IN  FromStrategy3(r, IF got THEN 90 ELSE progress)
    /\ UNCHANGED <<aiSegments, aiPercentage, reasoning, pastedText>>
    /\ UNCHANGED otherVars

\* Strategy 3 settles with outcome o: a step of the engine throws, or the
\* text is recognized and the worker terminated.
Strategy3Settled(o) ==
    /\ run.pc = "s3"
    /\ LET got == o.kind \in {"terminate", "text"}
           st  == IF o.kind = "text" THEN "text" ELSE "threw"
           r   == [ended(run, 3, st, o.text) EXCEPT
                       !.extracted = IF got THEN o.text ELSE @,
                       !.worker = IF o.kind = "create" THEN "none"
                                  ELSE IF o.kind = "text" THEN "terminated"
                                  ELSE "alive"]
       IN  /\ progress' = IF o.kind = "text" THEN 95 ELSE progress
           /\ FinalCheck(r)
    /\ UNCHANGED <<aiSegments, aiPercentage, reasoning, pastedText>>
    /\ UNCHANGED otherVars

\* ------------------------------------------------------------------------
\* Pasted text
\* ------------------------------------------------------------------------

\* The paste box's onChange; the box is rendered while scanStatus is idle.
SetPastedText(t) ==
    /\ scanStatus = "idle"
    /\ pastedText' = t
    /\ UNCHANGED <<scanStatus, progress, extractedText, aiSegments,
                   aiPercentage, reasoning, run>>
    /\ UNCHANGED otherVars

\* A handlePasteAnalysis that does not publish the text it analyses.
HandlePasteAnalysisSilent ==
    /\ scanStatus = "idle"
    /\ IF trim(pastedText) = <<>>
       THEN UNCHANGED <<scanStatus, run>>
       ELSE /\ scanStatus' = "analyzing"
            /\ run' = beginAnalysis([NoRun EXCEPT !.kind = "paste",
                                                  !.before = published],
                                     pastedText)
    /\ UNCHANGED <<progress, extractedText, aiSegments, aiPercentage,
                   reasoning, pastedText>>
    /\ UNCHANGED otherVars

\* handlePasteAnalysis up to the await of detectAI; it returns at once on
\* white space.  Its button is rendered while scanStatus is idle.
HandlePasteAnalysis ==
    /\ scanStatus = "idle"
    /\ IF trim(pastedText) = <<>>
       THEN UNCHANGED <<scanStatus, extractedText, run>>
       ELSE /\ scanStatus' = "analyzing"
            /\ extractedText' = pastedText
            /\ run' = beginAnalysis([NoRun EXCEPT !.kind = "paste",
                                                  !.before = published],
                                     pastedText)
    /\ UNCHANGED <<progress, aiSegments, aiPercentage, reasoning, pastedText>>
    /\ UNCHANGED otherVars

\* ------------------------------------------------------------------------
\* The end of a run
\* ------------------------------------------------------------------------

\* A performAnalysis that flags the segment from 50 on.
ClassifiersSettledFrom50(a, b) ==
    /\ run.pc = "cloud"
    /\ LET cloudResult == detectAI(a, b)
           statResult  == statResults[run.text]
           resolved    == resolve(run.patternResult, cloudResult, statResult)
           aiScore     == clamp(resolved.score)
       IN  /\ run' = [run EXCEPT !.pc = "done",
                                 !.resA = a,
                                 !.resB = b,
                                 !.cloudResult = cloudResult,
                                 !.statResult = statResult,
                                 !.aiScore = resolved.score,
                                 !.aiReason = resolved.reason]
           /\ aiPercentage' = aiScore
           /\ reasoning' = resolved.reason
           /\ aiSegments' = <<[text |-> run.text, isAi |-> aiScore >= 50]>>
    /\ scanStatus' = "complete"
    /\ UNCHANGED <<progress, extractedText, pastedText>>
    /\ UNCHANGED otherVars

\* Both classifier requests have settled, as a and b: detectAI returns,
\* performAnalysis resolves and publishes, and its caller sets complete.
ClassifiersSettled(a, b) ==
    /\ run.pc = "cloud"
    /\ LET cloudResult == detectAI(a, b)
           statResult  == statResults[run.text]
           resolved    == resolve(run.patternResult, cloudResult, statResult)
           aiScore     == clamp(resolved.score)
       IN  /\ run' = [run EXCEPT !.pc = "done",
                                 !.resA = a,
                                 !.resB = b,
                                 !.cloudResult = cloudResult,
                                 !.statResult = statResult,
                                 !.aiScore = resolved.score,
                                 !.aiReason = resolved.reason]
           /\ aiPercentage' = aiScore
           /\ reasoning' = resolved.reason
           /\ aiSegments' = <<[text |-> run.text, isAi |-> aiScore > 50]>>
    /\ scanStatus' = "complete"
    /\ UNCHANGED <<progress, extractedText, pastedText>>
    /\ UNCHANGED otherVars

\* resetScan; its button is rendered while scanStatus is complete.
ResetScan ==
    /\ scanStatus = "complete"
    /\ scanStatus' = "idle"
    /\ progress' = 0
    /\ extractedText' = <<>>
    /\ aiSegments' = <<>>
    /\ UNCHANGED <<aiPercentage, reasoning, pastedText, run>>
    /\ UNCHANGED otherVars

\* The component with every outcome of the cascade and a few of the
\* classifiers.
Next ==
    \/ OnDrop
    \/ \E o \in Strategy1Outcomes : Strategy1Settled(o)
    \/ \E o \in Strategy2Outcomes : Strategy2Settled(o)
    \/ \E o \in Strategy3Outcomes : Strategy3Settled(o)
    \/ \E t \in PasteTexts : SetPastedText(t)
    \/ HandlePasteAnalysis
    \/ \E ab \in FewPairs : ClassifiersSettled(ab[1], ab[2])
    \/ ResetScan

Spec == Init /\ [][Next]_vars

\* The component with every outcome of the classifiers and a few of the
\* cascade.
NextAnalysis ==
    \/ OnDrop
    \/ \E o \in FewOutcomes1 : Strategy1Settled(o)
    \/ \E o \in FewOutcomes2 : Strategy2Settled(o)
    \/ \E o \in FewOutcomes3 : Strategy3Settled(o)
    \/ \E t \in PasteTexts : SetPastedText(t)
    \/ HandlePasteAnalysis
    \/ \E ab \in AllPairs : ClassifiersSettled(ab[1], ab[2])
    \/ ResetScan

SpecAnalysis == Init /\ [][NextAnalysis]_vars

\* ------------------------------------------------------------------------
\* The detectors alone
\* ------------------------------------------------------------------------

\* How many pieces a probed text has at most.
MaxPieces == 3

\* How many sentences a probed text has at most.
MaxSentences == 2

\* The pieces of the texts checkAIPatterns is applied to: four phrases of
\* the list (the first with a capital letter), a phrase that holds another
\* one, a word of no phrase and a space.
PatternPieces ==
    { Capitalize(aiPhrases[12]), aiPhrases[13], aiPhrases[14], aiPhrases[7],
      aiPhrases[1], Word(2), <<" ">> }

\* The pieces of the texts localStatisticalAnalysis is applied to: sentences
\* of 1, 12, 13, 28 and 40 words of 1 or 6 letters, and three words without
\* a full stop.
StatPieces ==
    { Sentence(n, k) : n \in {1, 12, 13, 28, 40}, k \in {1, 6} }
    \cup { Word(2) \o <<" ">> \o Word(2) \o <<"\n">> \o Word(2) }

\* The text of the pieces q, one after the other with sep between them.
RECURSIVE join(_, _)
join(q, sep) ==
    IF q = <<>> THEN <<>>
    ELSE IF Len(q) = 1 THEN q[1]
    ELSE q[1] \o sep \o join(Tail(q), sep)

\* The text checkAIPatterns is applied to.
patternText == join(probe, <<>>)

\* The text localStatisticalAnalysis is applied to.
statText == join(probe, <<" ">>)

\* One more piece.
AddPiece(p) ==
    /\ probeOut = NoOutput
    /\ Len(probe) < MaxPieces
    /\ probe' = Append(probe, p)
    /\ UNCHANGED <<scanStatus, progress, extractedText, aiSegments,
                   aiPercentage, reasoning, pastedText, run, stale, probeOut,
                   request, response>>

\* checkAIPatterns is applied to the text.
ApplyPatterns ==
    /\ probeOut = NoOutput
    /\ probeOut' = [by     |-> "checkAIPatterns",
                    score  |-> checkAIPatterns(patternText).score,
                    reason |-> checkAIPatterns(patternText).reason]
    /\ UNCHANGED <<scanStatus, progress, extractedText, aiSegments,
                   aiPercentage, reasoning, pastedText, run, stale, probe,
                   request, response>>

NextPattern ==
    \/ \E p \in PatternPieces : AddPiece(p)
    \/ ApplyPatterns

SpecPattern == Init /\ [][NextPattern]_vars

\* One more sentence.
AddSentence(p) ==
    /\ probeOut = NoOutput
    /\ Len(probe) < MaxSentences
    /\ probe' = Append(probe, p)
    /\ UNCHANGED <<scanStatus, progress, extractedText, aiSegments,
                   aiPercentage, reasoning, pastedText, run, stale, probeOut,
                   request, response>>

\* localStatisticalAnalysis is applied to the text.
ApplyStatistics ==
    /\ probeOut = NoOutput
    /\ probeOut' = [by     |-> "localStatisticalAnalysis",
                    score  |-> localStatisticalAnalysis(statText).score,
                    reason |-> localStatisticalAnalysis(statText).reason]
    /\ UNCHANGED <<scanStatus, progress, extractedText, aiSegments,
                   aiPercentage, reasoning, pastedText, run, stale, probe,
                   request, response>>

NextStat ==
    \/ \E p \in StatPieces : AddSentence(p)
    \/ ApplyStatistics

SpecStat == Init /\ [][NextStat]_vars

\* ------------------------------------------------------------------------
\* The cascade's claims
\* ------------------------------------------------------------------------

\* C1: an image run attempts the strategies in the fixed order 1, 2, 3, one
\* at a time: the strategy awaited is the last one invoked, a strategy is
\* invoked only after every earlier one ended without usable text (text of
\* trimmed length 5 or more), strategies 2 and 3 are never invoked once
\* strategy 1 returned 5 characters or more, and strategy 3 is not invoked
\* once strategy 2 returned usable text.
TheoremC1 ==
    run.kind = "image" =>
        /\ run.invoked \in {<<1>>, <<1, 2>>, <<1, 2, 3>>}
        /\ run.pc = "s1" => run.invoked = <<1>>
        /\ run.pc = "s2" => run.invoked = <<1, 2>>
        /\ run.pc = "s3" => run.invoked = <<1, 2, 3>>
        /\ \A i \in 2..3 : Len(run.invoked) >= i =>
              \A j \in 1..(i - 1) :
                  /\ run.ret[j].st # "notrun"
                  /\ ~(run.ret[j].st = "text" /\ Len(trim(run.ret[j].text)) >= 5)
        /\ (run.ret[1].st = "text" /\ Len(run.ret[1].text) >= 5) =>
              run.invoked = <<1>>
        /\ (run.ret[2].st = "text" /\ Len(trim(run.ret[2].text)) >= 5) =>
              run.invoked = <<1, 2>>

\* Strategy 1 returned six characters and the run went on to the analysis
\* with strategy 1 alone invoked.
WitnessC1 ==
    /\ run.kind = "image"
    /\ run.ret[1].st = "text"
    /\ Len(run.ret[1].text) = 6
    /\ run.called
    /\ run.invoked = <<1>>

\* C2: the text a strategy returns stops the cascade exactly when its
\* trimmed length is 5 or more; with a trimmed length below 5 (empty and
\* white space included) the next strategy is invoked.
OriginalC2 ==
    run.kind = "image" =>
        \A i \in 1..2 : run.ret[i].st = "text" =>
            (Len(trim(run.ret[i].text)) >= 5 <=> Len(run.invoked) = i)

\* C3: when each of the three strategies failed or returned text of trimmed
\* length below 5, the run ends in failure: performAnalysis is never called,
\* nothing is published and scanStatus is back to idle.
OriginalC3 ==
    ( /\ run.kind = "image"
      /\ \A i \in 1..3 :
            /\ run.ret[i].st # "notrun"
            /\ run.ret[i].st = "text" => Len(trim(run.ret[i].text)) < 5 )
    => /\ ~run.called
       /\ published = run.before
       /\ run.pc = "done" /\ scanStatus = "idle"

\* C4: no error of a strategy aborts the cascade: after strategy 1 or 2
\* threw (rejected request, unreadable body) or answered without success,
\* the next strategy is invoked, and after strategy 3 threw the final check
\* is made: the text is analysed or the run fails back to idle.
TheoremC4 ==
    run.kind = "image" =>
        /\ \A i \in 1..2 : run.ret[i].st \in {"threw", "nosuccess"} =>
              Len(run.invoked) > i
        /\ run.ret[3].st = "threw" =>
              \/ run.called /\ run.text = run.extracted
              \/ run.pc = "done" /\ scanStatus = "idle" /\ ~accepted(run.extracted)

\* Strategy 1 threw, strategy 2 answered without success, strategy 3 threw,
\* and the run reached its end.
WitnessC4 ==
    /\ run.kind = "image"
    /\ run.ret[1].st = "threw"
    /\ run.ret[2].st = "nosuccess"
    /\ run.ret[3].st = "threw"
    /\ run.pc = "done"

\* C5: a paste run invokes no strategy and no engine, and the text it
\* publishes as extractedText and analyses is exactly the pasted text.
TheoremC5 ==
    run.kind = "paste" =>
        /\ run.invoked = <<>>
        /\ \A i \in 1..3 : run.ret[i] = NotRun
        /\ run.worker = "none"
        /\ run.called
        /\ scanStatus \in {"analyzing", "complete"} =>
              /\ run.text = pastedText
              /\ extractedText = pastedText
        /\ scanStatus = "complete" =>
              aiSegments = <<[text |-> pastedText, isAi |-> aiPercentage > 50]>>

\* A paste run over a text that ends with a line end is complete.
WitnessC5 ==
    /\ run.kind = "paste"
    /\ scanStatus = "complete"
    /\ trim(pastedText) # pastedText
    /\ extractedText = pastedText

\* ------------------------------------------------------------------------
\* The detectors' claims
\* ------------------------------------------------------------------------

\* How many phrases of the list each analysed text holds, whatever its case.
matchedCount ==
    [t \in AnalysedTexts |->
        Cardinality({i \in DOMAIN aiPhrases : includes(toLowerCase(t), aiPhrases[i])})]

OriginalC8 ==
    probeOut.by = "localStatisticalAnalysis" =>
        LET sentences == statSentences(statText)
            words(s) == SelectSeq(split(s), LAMBDA w : w # <<>>)
            lengths == [k \in DOMAIN sentences |-> Len(words(sentences[k]))]
            tokens == split(cleanText(statText))
            n == Len(lengths)
            S == SumSeq(lengths)
            Q == SumSeq([k \in DOMAIN lengths |-> lengths[k] * lengths[k]])
            C == SumSeq([k \in DOMAIN tokens |-> Len(tokens[k])])
            a == IF S > 12 * n /\ S < 28 * n THEN 20 ELSE 0
            b == IF n * Q - S * S < 36 * n * n THEN 55
                 ELSE IF n * Q - S * S < 144 * n * n THEN 30 ELSE 0
            c == IF C > 5 * Len(tokens) THEN 10 ELSE 0
        IN  probeOut.score = Min2(100, 20 + a + b + c)

\* C9: detectAI takes the maximum of the probabilities the two endpoints
\* returned (a missing label or a non-success status counting as 0) and
\* returns a verdict, of score round(100 * max), exactly when that maximum
\* is above 0.5; in every other case, the one where a request is rejected or
\* a body cannot be read included, it returns no verdict.
TheoremC9 ==
    (run.called /\ run.pc = "done") =>
        LET pa == IF run.resA.kind = "label" THEN run.resA.p ELSE 0
            pb == IF run.resB.kind = "label" THEN run.resB.p ELSE 0
            m  == IF pa > pb THEN pa ELSE pb
            c  == run.cloudResult
            read == {"status", "object", "nolabel", "label"}
        IN  /\ c.some <=> (run.resA.kind \in read /\ run.resB.kind \in read /\ m > 500)
            /\ c.some => 10 * c.score - 5 <= m /\ m < 10 * c.score + 5
            /\ ~c.some => c = NoVerdict

\* Endpoint A gave no label and endpoint B 0.996: a verdict of 100.
WitnessC9 ==
    /\ run.called
    /\ run.pc = "done"
    /\ run.resA.kind = "nolabel"
    /\ run.resB.kind = "label"
    /\ run.resB.p = 996
    /\ run.cloudResult.some
    /\ run.cloudResult.score = 100

\* C10 as stated: whenever an endpoint fails (rejected request, non-success
\* status, unreadable body or a body of unexpected shape) detectAI yields no
\* verdict and the run publishes a result resolved from the pattern and
\* statistical verdicts only.
OriginalC10 ==
    ( /\ run.called
      /\ run.pc = "done"
      /\ \/ run.resA.kind \in {"reject", "status", "badjson", "object", "flat"}
         \/ run.resB.kind \in {"reject", "status", "badjson", "object", "flat"} )
    => /\ ~run.cloudResult.some
       /\ run.aiScore = IF run.patternResult.score > 50
                        THEN run.patternResult.score ELSE run.statResult.score
       /\ aiPercentage = clamp(run.aiScore)

\* C10: a failure of an endpoint never keeps the run from publishing.  When
\* a request is rejected or a body cannot be read, detectAI yields no
\* verdict; when an endpoint answers with a non-success status or an object
\* in the place of the list, it counts as 0 and the other endpoint alone
\* decides the verdict.  Without a verdict the result is resolved from the
\* pattern and statistical verdicts only.
TheoremC10 ==
    ( /\ run.called
      /\ run.pc = "done"
      /\ \/ run.resA.kind \in {"reject", "status", "badjson", "object", "flat"}
         \/ run.resB.kind \in {"reject", "status", "badjson", "object", "flat"} )
    => LET c == run.cloudResult
           hard == {"reject", "badjson", "flat"}
           soft == {"status", "object"}
       IN  /\ aiPercentage = clamp(run.aiScore)
           /\ reasoning = run.aiReason
           /\ scanStatus \in {"complete", "idle"}
           /\ (run.resA.kind \in hard \/ run.resB.kind \in hard) => ~c.some
           /\ (run.resA.kind \in soft /\ run.resB.kind \notin hard) =>
                 (c.some <=> (run.resB.kind = "label" /\ run.resB.p > 500))
           /\ (run.resB.kind \in soft /\ run.resA.kind \notin hard) =>
                 (c.some <=> (run.resA.kind = "label" /\ run.resA.p > 500))
           /\ ~c.some =>
                 /\ run.aiScore =
                       IF run.patternResult.score > 50
                       THEN run.patternResult.score ELSE run.statResult.score
                 /\ run.aiReason =
                       IF run.patternResult.score > 50
                       THEN run.patternResult.reason ELSE run.statResult.reason

\* Endpoint A's request was rejected while endpoint B gave 0.9: no verdict,
\* and the run is complete with the statistical verdict published.
WitnessC10 ==
    /\ run.called
    /\ run.pc = "done"
    /\ run.resA.kind = "reject"
    /\ run.resB.kind = "label"
    /\ run.resB.p = 900
    /\ ~run.cloudResult.some
    /\ scanStatus = "complete"
    /\ run.patternResult.score = 0
    /\ aiPercentage = run.statResult.score

\* ------------------------------------------------------------------------
\* The first Scanner: one engine, sentence by sentence
\* ------------------------------------------------------------------------

\* How many pieces a recognized text has at most.
MaxParts == 2

\* connectors
connectors ==
    << <<"f","u","r","t","h","e","r","m","o","r","e">>,
       <<"m","o","r","o","v","e","r">>,
       <<"a","d","d","i","t","i","o","n","a","l","l","y">>,
       <<"h","o","w","e","v","e","r">>,
       <<"c","o","n","c","l","u","s","i","o","n">>,
       <<"s","u","m","m","a","r","y">> >>

\* The flag analyzeText gives a sentence before the fallback: 11 to 29
\* words, a mean word length strictly between 4 and 6, and a connector among
\* the words or an even number of characters in the sentence as matched.
isAiSentence(sentence) ==
    LET words == split(trim(sentence))
        wordCount == Len(words)
        total == SumSeq([k \in DOMAIN words |-> Len(words[k])])
        hasConnector == \E k \in DOMAIN words : \E c \in DOMAIN connectors :
                            toLowerCase(words[k]) = connectors[c]
    IN  /\ wordCount > 10
        /\ wordCount < 30
        /\ total > 4 * wordCount
        /\ total < 6 * wordCount
        /\ (hasConnector \/ Len(sentence) % 2 = 0)

\* Math.round((aiCount / n) * 100)
roundShare(aiCount, n) == (200 * aiCount + n) \div (2 * n)

\* What analyzeText publishes, given the flags of the matched sentences.
segmentsOf(sentences, flags) ==
    LET fallback == /\ Len(sentences) > 0
                    /\ \A k \in DOMAIN flags : ~flags[k]
                    /\ Len(sentences[1]) > 50
        segments == [k \in DOMAIN sentences |->
                        [text |-> sentences[k],
                         isAi |-> flags[k] \/ (k = 1 /\ fallback)]]
        aiCount  == Cardinality({k \in DOMAIN segments : segments[k].isAi})
    IN  [segments   |-> segments,
         percentage |-> IF Len(segments) > 0
                        THEN roundShare(aiCount, Len(segments)) ELSE 0]

\* analyzeText(text)
analyzeText(text) ==
    the({ segmentsOf(sentences, [k \in DOMAIN sentences |-> isAiSentence(sentences[k])]) :
            sentences \in {statSentences(text)} })

\* The pieces of the texts the engine recognizes: a sentence of 12 words of
\* 5 letters, the same with a connector in it, a sentence of 2 words, a
\* sentence of 40 words of one letter, and two words without a full stop.
FirstPieces ==
    { Sentence(12, 5),
      Word(5) \o <<" ">> \o Capitalize(connectors[4]) \o <<" ">> \o Sentence(10, 5),
      Sentence(2, 3),
      Sentence(40, 1),
      Word(2) \o <<" ">> \o Word(2) }

\* The texts of 0 to n pieces, a space and a line end between the pieces.
RECURSIVE textsOf(_, _)
textsOf(pieces, n) ==
    IF n = 0 THEN {<<>>}
    ELSE LET shorter == textsOf(pieces, n - 1)
         IN  shorter \cup {t \o (IF t = <<>> THEN <<>> ELSE <<" ", "\n">>) \o p :
                              t \in shorter, p \in pieces}

FirstTexts == textsOf(FirstPieces, MaxParts)

\* analyzeText over the texts the engine can recognize, computed once.
firstResults == [t \in FirstTexts |-> analyzeText(t)]

\* onDrop -> startScan(file) of the first Scanner, up to its first await,
\* the one of preprocessImage.
OnDropFirst ==
    /\ scanStatus = "idle"
    /\ scanStatus' = "scanning"
    /\ progress' = 0
    /\ run' = [NoRun EXCEPT !.kind = "first", !.pc = "load", !.before = published]
    /\ UNCHANGED <<extractedText, aiSegments, aiPercentage, reasoning, pastedText>>
    /\ UNCHANGED otherVars

\* preprocessImage: the image loads and onload resolves the promise, or the
\* load fails (or onload throws) and nothing ever settles the promise, which
\* has no onerror and no reject: startScan stays at its first await.
ImageLoaded(ok) ==
    /\ run.kind = "first"
    /\ run.pc = "load"
    /\ run' = [run EXCEPT !.pc = IF ok THEN "ocr" ELSE "never"]
    /\ UNCHANGED <<scanStatus, progress, extractedText, aiSegments,
                   aiPercentage, reasoning, pastedText>>
    /\ UNCHANGED otherVars

\* The engine's logger reports the share q of the text recognized so far.
LoggerReports(q) ==
    /\ run.kind = "first"
    /\ run.pc = "ocr"
    /\ progress' = q
    /\ UNCHANGED <<scanStatus, extractedText, aiSegments, aiPercentage,
                   reasoning, pastedText, run>>
    /\ UNCHANGED otherVars

\* createWorker or recognize throws, or recognize gives the text t.
RecognizeSettled(threw, t) ==
    /\ run.kind = "first"
    /\ run.pc = "ocr"
    /\ IF threw
       THEN /\ scanStatus' = "idle"
            /\ run' = [run EXCEPT !.pc = "done"]
            /\ UNCHANGED extractedText
       ELSE /\ extractedText' = t
            /\ run' = [run EXCEPT !.pc = "terminate", !.text = t, !.worker = "alive"]
            /\ UNCHANGED scanStatus
    /\ UNCHANGED <<progress, aiSegments, aiPercentage, reasoning, pastedText>>
    /\ UNCHANGED otherVars

\* worker.terminate() settles.
TerminateSettled(threw) ==
    /\ run.kind = "first"
    /\ run.pc = "terminate"
    /\ IF threw
       THEN /\ scanStatus' = "idle"
            /\ run' = [run EXCEPT !.pc = "done"]
       ELSE /\ scanStatus' = "analyzing"
            /\ run' = [run EXCEPT !.pc = "delay", !.worker = "terminated"]
    /\ UNCHANGED <<progress, extractedText, aiSegments, aiPercentage,
                   reasoning, pastedText>>
    /\ UNCHANGED otherVars

\* The two seconds are over: analyzeText(text), then complete.
DelayElapsed ==
    /\ run.kind = "first"
    /\ run.pc = "delay"
    /\ aiSegments' = firstResults[run.text].segments
    /\ aiPercentage' = firstResults[run.text].percentage
    /\ scanStatus' = "complete"
    /\ run' = [run EXCEPT !.pc = "done", !.called = TRUE]
    /\ UNCHANGED <<progress, extractedText, reasoning, pastedText>>
    /\ UNCHANGED otherVars

\* resetScan of the first Scanner.
ResetScanFirst ==
    /\ scanStatus = "complete"
    /\ scanStatus' = "idle"
    /\ progress' = 0
    /\ extractedText' = <<>>
    /\ aiSegments' = <<>>
    /\ UNCHANGED <<aiPercentage, reasoning, pastedText, run>>
    /\ UNCHANGED otherVars

NextFirst ==
    \/ OnDropFirst
    \/ \E ok \in BOOLEAN : ImageLoaded(ok)
    \/ \E q \in {0, 50, 100} : LoggerReports(q)
    \/ \E t \in FirstTexts : RecognizeSettled(FALSE, t)
    \/ RecognizeSettled(TRUE, <<>>)
    \/ \E threw \in BOOLEAN : TerminateSettled(threw)
    \/ DelayElapsed
    \/ ResetScanFirst

SpecFirst == Init /\ [][NextFirst]_vars

\* The first Scanner when every external operation settles: the image load,
\* the engine's steps and the timer.
SpecFirstLive ==
    /\ SpecFirst
    /\ WF_vars(\E ok \in BOOLEAN : ImageLoaded(ok))
    /\ WF_vars(RecognizeSettled(TRUE, <<>>) \/ \E t \in FirstTexts : RecognizeSettled(FALSE, t))
    /\ WF_vars(\E threw \in BOOLEAN : TerminateSettled(threw))
    /\ WF_vars(DelayElapsed)

\* ------------------------------------------------------------------------
\* The published result's claims
\* ------------------------------------------------------------------------

\* C11: performAnalysis clamps the resolved score, not a detector's score:
\* a resolved score below 10 is published as 15, one above 99 as 99, every
\* other one unchanged; aiPercentage is an integer from 0 to 100 in every
\* state of either Scanner.
TheoremC11 ==
    /\ aiPercentage \in 0..100
    /\ \A s \in 0..120 :
          clamp(s) = IF s < 10 THEN 15 ELSE IF s > 99 THEN 99 ELSE s
    /\ (run.kind \in {"image", "paste"} /\ run.called /\ run.pc = "done") =>
          /\ aiPercentage = IF run.aiScore < 10 THEN 15
                            ELSE IF run.aiScore > 99 THEN 99 ELSE run.aiScore
          /\ run.aiScore \in {run.patternResult.score, run.cloudResult.score,
                              run.statResult.score}

\* The remote verdict of 100 won and 99 is published, the verdict still 100.
WitnessC11 ==
    /\ run.called
    /\ run.pc = "done"
    /\ run.cloudResult.score = 100
    /\ run.aiScore = 100
    /\ aiPercentage = 99

statFacts ==
    [t \in AnalysedTexts |->
        the({ [bursty  |-> Len(lengths) * SumSeq([k \in DOMAIN lengths |-> lengths[k] * lengths[k]])
                             - SumSeq(lengths) * SumSeq(lengths)
                           >= 144 * Len(lengths) * Len(lengths),
               outside |-> \/ SumSeq(lengths) < 12 * Len(lengths)
                           \/ SumSeq(lengths) > 28 * Len(lengths),
               long    |-> SumSeq([k \in DOMAIN words |-> Len(words[k])]) > 5 * Len(words)] :
                 lengths \in {statLengths(t)}, words \in {split(cleanText(t))} })]

OriginalC14 ==
    /\ (scanStatus = "idle" /\ run.called /\ run.pc = "done") =>
          /\ extractedText = <<>>
          /\ aiSegments = <<>>
          /\ aiPercentage = 0
          /\ reasoning = <<>>
          /\ progress = 0
    /\ (run.pc \in {"s1", "ocr"}) =>
          /\ extractedText = <<>>
          /\ aiSegments = <<>>
          /\ aiPercentage = 0
          /\ reasoning = <<>>

\* ------------------------------------------------------------------------
\* Two runs in flight
\* ------------------------------------------------------------------------

\* The idle panel leaves the page through its exit animation (exit=...
\* under AnimatePresence), and while it does its drop zone and its button
\* still answer: a second onDrop starts a run while the first one is in
\* flight.  The first run becomes the stale one.
OnDropAgain ==
    /\ run.kind = "image"
    /\ run.pc # "done"
    /\ stale.pc = "done"
    /\ scanStatus = "scanning"
    /\ stale' = run
    /\ scanStatus' = "scanning"
    /\ progress' = 10
    /\ run' = [NoRun EXCEPT !.kind = "image", !.pc = "s1", !.invoked = <<1>>,
                             !.before = published]
    /\ UNCHANGED <<extractedText, aiSegments, aiPercentage, reasoning,
                   pastedText, probe, probeOut, request,
                   response>>

\* A second click on the button of the paste box, likewise.
HandlePasteAnalysisAgain ==
    /\ run.kind = "paste"
    /\ run.pc # "done"
    /\ stale.pc = "done"
    /\ scanStatus = "analyzing"
    /\ trim(pastedText) # <<>>
    /\ stale' = run
    /\ scanStatus' = "analyzing"
    /\ extractedText' = pastedText
    /\ run' = beginAnalysis([NoRun EXCEPT !.kind = "paste", !.before = published],
                            pastedText)
    /\ UNCHANGED <<progress, aiSegments, aiPercentage, reasoning, pastedText,
                   probe, probeOut, request,
                   response>>

\* The end of startScan for the stale run, from the final check on.
StaleFinalCheck(r) ==
    IF accepted(r.extracted)
    THEN /\ extractedText' = r.extracted
         /\ stale' = beginAnalysis(r, r.extracted)
         /\ UNCHANGED scanStatus
    ELSE /\ scanStatus' = "idle"
         /\ stale' = [r EXCEPT !.pc = "done"]
         /\ UNCHANGED extractedText

\* startScan of the stale run from the guard of strategy 3 on.
StaleFromStrategy3(r, p) ==
    IF needsNext(r.extracted)
    THEN /\ progress' = 60
         /\ stale' = invoke(r, 3)
         /\ UNCHANGED <<scanStatus, extractedText>>
    ELSE /\ progress' = p
         /\ StaleFinalCheck(r)

\* startScan of the stale run from the guard of strategy 2 on.
StaleFromStrategy2(r, p) ==
    IF needsNext(r.extracted)
    THEN /\ progress' = 40
         /\ stale' = invoke(r, 2)
         /\ UNCHANGED <<scanStatus, extractedText>>
    ELSE StaleFromStrategy3(r, p)

\* Strategy i of the stale run settles with outcome o.
StaleStrategySettled(i, o) ==
    /\ stale.pc = <<"s1", "s2", "s3">>[i]
    /\ LET got == IF i = 1 THEN o.kind = "text" /\ o.text # <<>>
                  ELSE IF i = 2 THEN o.kind = "text"
                  ELSE o.kind \in {"terminate", "text"}
           st  == IF o.kind = "text" THEN "text"
                  ELSE IF i = 3 \/ o.kind \in {"reject", "badjson"} THEN "threw"
                  ELSE "nosuccess"
           r   == [ended(stale, i, st, o.text) EXCEPT
                       !.extracted = IF got THEN o.text ELSE @,
                       !.worker = IF i < 3 \/ o.kind = "create" THEN "none"
                                  ELSE IF o.kind = "text" THEN "terminated"
                                  ELSE "alive"]
       IN  IF i = 1 THEN StaleFromStrategy2(r, IF got THEN 100 ELSE progress)
           ELSE IF i = 2 THEN StaleFromStrategy3(r, IF got THEN 90 ELSE progress)
           ELSE /\ progress' = IF o.kind = "text" THEN 95 ELSE progress
                /\ StaleFinalCheck(r)
    /\ UNCHANGED <<aiSegments, aiPercentage, reasoning, pastedText, run,
                   probe, probeOut, request,
                   response>>

\* Both classifier requests of the stale run have settled: it publishes and
\* its caller sets complete.
StaleClassifiersSettled(a, b) ==
    /\ stale.pc = "cloud"
    /\ LET cloudResult == detectAI(a, b)
           statResult  == statResults[stale.text]
           resolved    == resolve(stale.patternResult, cloudResult, statResult)
           aiScore     == clamp(resolved.score)
       IN  /\ stale' = [stale EXCEPT !.pc = "done",
                                     !.resA = a,
                                     !.resB = b,
                                     !.cloudResult = cloudResult,
                                     !.statResult = statResult,
                                     !.aiScore = resolved.score,
                                     !.aiReason = resolved.reason]
           /\ aiPercentage' = aiScore
           /\ reasoning' = resolved.reason
           /\ aiSegments' = <<[text |-> stale.text, isAi |-> aiScore > 50]>>
    /\ scanStatus' = "complete"
    /\ UNCHANGED <<progress, extractedText, pastedText, run, probe, probeOut, request,
                   response>>

\* The texts the user pastes and the outcomes of the classifier requests
\* when two runs can be in flight.
OverlapTexts == {t \in PasteTexts : Len(t) > 2 /\ Len(t) <= 60}

OverlapPairs ==
    { <<[kind |-> "status", p |-> 0], [kind |-> "reject", p |-> 0]>>,
      <<[kind |-> "label", p |-> 900], [kind |-> "nolabel", p |-> 0]>> }

\* The cascade Scanner with a second run started while the first is in
\* flight; a third run waits for the second to end.
NextOverlap ==
    \/ run.pc = "done" /\ OnDrop
    \/ \E o \in FewOutcomes1 : Strategy1Settled(o)
    \/ \E o \in FewOutcomes2 : Strategy2Settled(o)
    \/ \E o \in FewOutcomes3 : Strategy3Settled(o)
    \/ \E t \in OverlapTexts : SetPastedText(t)
    \/ run.pc = "done" /\ HandlePasteAnalysis
    \/ \E ab \in OverlapPairs : ClassifiersSettled(ab[1], ab[2])
    \/ ResetScan
    \/ OnDropAgain
    \/ HandlePasteAnalysisAgain
    \/ \E o \in FewOutcomes1 : StaleStrategySettled(1, o)
    \/ \E o \in FewOutcomes2 : StaleStrategySettled(2, o)
    \/ \E o \in FewOutcomes3 : StaleStrategySettled(3, o)
    \/ \E ab \in OverlapPairs : StaleClassifiersSettled(ab[1], ab[2])

SpecOverlap == Init /\ [][NextOverlap]_vars

\* ------------------------------------------------------------------------
\* The calls of setProgress
\* ------------------------------------------------------------------------

\* The values an image run has passed to setProgress so far, in the order
\* of the calls: 10 at the start, 100 when strategy 1 gave a text, 40 on
\* entering strategy 2, 90 when it gave a text, 60 on entering strategy 3,
\* 95 when the engine recognized and was terminated.
progressCalls(r) ==
    <<10>>
    \o (IF r.ret[1].st = "text" /\ r.ret[1].text # <<>> THEN <<100>> ELSE <<>>)
    \o (IF \E k \in DOMAIN r.invoked : r.invoked[k] = 2 THEN <<40>> ELSE <<>>)
    \o (IF r.ret[2].st = "text" THEN <<90>> ELSE <<>>)
    \o (IF \E k \in DOMAIN r.invoked : r.invoked[k] = 3 THEN <<60>> ELSE <<>>)
    \o (IF r.ret[3].st = "text" THEN <<95>> ELSE <<>>)

\* ------------------------------------------------------------------------
\* The two classifier requests, one by one
\* ------------------------------------------------------------------------

\* What a classifier request comes to when the requests settle one by one.
FetchOutcomes ==
    { [kind |-> "reject", p |-> 0],
      [kind |-> "status", p |-> 0],
      [kind |-> "label", p |-> 501],
      [kind |-> "label", p |-> 900] }

\* Request w (1 for fetchA, 2 for fetchB) settles with outcome o while
\* detectAI awaits Promise.all([fetchA, fetchB]).  The await ends when the
\* request is rejected, whatever the other request does, or when both have
\* answered; detectAI and performAnalysis then run to their end.  Else the
\* await goes on.
FetchSettled(w, o) ==
    /\ run.pc = "cloud"
    /\ (IF w = 1 THEN run.resA ELSE run.resB).kind = "none"
    /\ LET a == IF w = 1 THEN o ELSE run.resA
           b == IF w = 2 THEN o ELSE run.resB
       IN  IF o.kind = "reject" \/ (a.kind # "none" /\ b.kind # "none")
           THEN ClassifiersSettled(a, b)
           ELSE /\ run' = [run EXCEPT !.resA = a, !.resB = b]
                /\ UNCHANGED <<scanStatus, progress, extractedText, aiSegments,
                               aiPercentage, reasoning, pastedText>>
                /\ UNCHANGED otherVars

\* The request that was still in flight when the other was rejected settles
\* after detectAI has returned: nobody reads its outcome.
LateFetchSettled(w, o) ==
    /\ run.called
    /\ run.pc = "done"
    /\ (IF w = 1 THEN run.resA ELSE run.resB).kind = "none"
    /\ run' = IF w = 1 THEN [run EXCEPT !.resA = o] ELSE [run EXCEPT !.resB = o]
    /\ UNCHANGED <<scanStatus, progress, extractedText, aiSegments,
                   aiPercentage, reasoning, pastedText>>
    /\ UNCHANGED otherVars

\* The cascade Scanner with the classifier requests settling one by one.
NextFetch ==
    \/ OnDrop
    \/ \E o \in FewOutcomes1 : Strategy1Settled(o)
    \/ \E o \in FewOutcomes2 : Strategy2Settled(o)
    \/ \E o \in FewOutcomes3 : Strategy3Settled(o)
    \/ \E t \in OverlapTexts : SetPastedText(t)
    \/ HandlePasteAnalysis
    \/ \E w \in {1, 2}, o \in FetchOutcomes : FetchSettled(w, o)
    \/ \E w \in {1, 2}, o \in FetchOutcomes : LateFetchSettled(w, o)
    \/ ResetScan

SpecFetch == Init /\ [][NextFetch]_vars

\* ------------------------------------------------------------------------
\* The bodies of the classifier requests
\* ------------------------------------------------------------------------

\* A body that is the whole text.
bodyWhole(text) == text

\* The inputs of the request to the first classifier: text.slice(0, 510)
bodyA(text) == slice0(text, 510)

\* The inputs of the request to the second classifier: text.slice(0, 510)
bodyB(text) == slice0(text, 510)

\* The paste box with texts around 510 characters.
NextPayload ==
    \/ \E t \in LongTexts \cup OverlapTexts : SetPastedText(t)
    \/ HandlePasteAnalysis
    \/ \E ab \in FewPairs : ClassifiersSettled(ab[1], ab[2])
    \/ ResetScan

SpecPayload == Init /\ [][NextPayload]_vars

\* ------------------------------------------------------------------------
\* The route handler POST (src/app/page.tsx)
\* ------------------------------------------------------------------------

\* text.replace(/pat/g, ''): every occurrence of pat, from the left, removed.
RECURSIVE removeAll(_, _)
removeAll(s, pat) ==
    IF Len(s) < Len(pat) THEN s
    ELSE IF SubSeq(s, 1, Len(pat)) = pat
    THEN removeAll(SubSeq(s, Len(pat) + 1, Len(s)), pat)
    ELSE <<Head(s)>> \o removeAll(Tail(s), pat)

\* The mark of a markdown code block, three grave accents (written ^ here),
\* and the same followed by json.
Fence == <<"^", "^", "^">>

FenceJson == Fence \o <<"j", "s", "o", "n">>

\* A clean-up that removes nothing.
jsonStrAsIs(text) == text

\* jsonStr: the text without its fence-json marks, then without its fence
\* marks, trimmed (two replace calls and trim).
jsonStr(text) == trim(removeAll(removeAll(text, FenceJson), Fence))

\* The JSON texts among the texts the model service can reply.
JsonValues ==
    { <<"{", "}">>, <<"1">>, <<"[", "1", "]">> }

\* Whether JSON.parse(s) returns: s is a JSON text, white space around it
\* allowed.
parses(s) == trim(s) \in JsonValues

\* What the model service can reply: a JSON text or something else,
\* possibly in a markdown fence, possibly with white space around it.
Replies ==
    { before \o core \o after :
        before \in { <<>>, FenceJson, FenceJson \o <<"\n">>, Fence, <<" ">> },
        core   \in JsonValues \cup { <<"{">>, <<"x">>, <<>> },
        after  \in { <<>>, Fence, <<"\n">> \o Fence, <<"\n">> } }

\* What req.json() can give: it throws (no JSON body, or null, which the
\* destructuring does not take), or an object whose apiKey is absent, empty
\* or a key and whose image is absent, a data URL of a PNG or bare base64.
Bodies ==
    { [ok |-> FALSE, apiKey |-> "undefined", image |-> "undefined"] }
    \cup { [ok |-> TRUE, apiKey |-> k, image |-> i] :
            k \in {"undefined", "empty", "key"},
            i \in {"undefined", "png", "bare"} }

\* A request arrives: POST runs up to await req.json().
PostArrives ==
    /\ request.pc \in {"none", "done"}
    /\ request' = [NoRequest EXCEPT !.pc = "body"]
    /\ response' = NoResponse
    /\ UNCHANGED <<scanStatus, progress, extractedText, aiSegments,
                   aiPercentage, reasoning, pastedText, run, stale, probe,
                   probeOut>>

\* req.json() settles with b: the catch answers 500 when it throws or when
\* image.match throws on an absent image; no apiKey is answered 400; else
\* the model service is called.
BodyRead(b) ==
    /\ request.pc = "body"
    /\ IF ~b.ok
       THEN /\ request' = [request EXCEPT !.pc = "done", !.read = "threw"]
            /\ response' = [status |-> 500, error |-> TRUE, data |-> <<>>]
       ELSE IF b.apiKey # "key"
       THEN /\ request' = [request EXCEPT !.pc = "done", !.read = "object",
                                          !.apiKey = b.apiKey,
                                          !.image = b.image]
            /\ response' = [status |-> 400, error |-> TRUE, data |-> <<>>]
       ELSE IF b.image = "undefined"
       THEN /\ request' = [request EXCEPT !.pc = "done", !.read = "object",
                                          !.apiKey = b.apiKey,
                                          !.image = b.image]
            /\ response' = [status |-> 500, error |-> TRUE, data |-> <<>>]
       ELSE /\ request' = [request EXCEPT
                              !.pc = "model",
                              !.read = "object",
                              !.apiKey = b.apiKey,
                              !.image = b.image,
                              !.called = TRUE,
                              !.mimeType = IF b.image = "png" THEN "image/png"
                                           ELSE "image/jpeg"]
            /\ UNCHANGED response
    /\ UNCHANGED <<scanStatus, progress, extractedText, aiSegments,
                   aiPercentage, reasoning, pastedText, run, stale, probe,
                   probeOut>>

\* generateContent, result.response or response.text() throws, or the
\* model service replies t: the reply is cleaned and parsed, and answered
\* when it parses; the catch answers 500.
ModelSettled(threw, t) ==
    /\ request.pc = "model"
    /\ request' = [request EXCEPT !.pc = "done",
                                  !.settled = IF threw THEN "threw" ELSE "replied",
                                  !.reply = t]
    /\ response' = IF ~threw /\ parses(jsonStr(t))
                   THEN [status |-> 200, error |-> FALSE, data |-> jsonStr(t)]
                   ELSE [status |-> 500, error |-> TRUE, data |-> <<>>]
    /\ UNCHANGED <<scanStatus, progress, extractedText, aiSegments,
                   aiPercentage, reasoning, pastedText, run, stale, probe,
                   probeOut>>

NextPost ==
    \/ PostArrives
    \/ \E b \in Bodies : BodyRead(b)
    \/ ModelSettled(TRUE, <<>>)
    \/ \E t \in Replies : ModelSettled(FALSE, t)

SpecPost == Init /\ [][NextPost]_vars

\* ------------------------------------------------------------------------
\* Claims on overlapping runs, the classifier requests and the first Scanner
\* ------------------------------------------------------------------------

\* C15: when a second run was started while an earlier one was in flight and
\* both have ended, the later one with an analysis, what is on display is
\* the result of the later run: the earlier run has not overwritten the
\* extracted text, the percentage, the reasoning or the segment.
OriginalC15 ==
    (/\ stale.kind # "none"
     /\ stale.pc = "done"
     /\ run.pc = "done"
     /\ run.called
     /\ scanStatus = "complete")
    => /\ extractedText = run.text
       /\ aiPercentage = clamp(run.aiScore)
       /\ reasoning = run.aiReason
       /\ aiSegments = <<[text |-> run.text, isAi |-> clamp(run.aiScore) > 50]>>

\* C16: when the request to one classifier has failed, by a rejection or by
\* a status that is no success, and the other classifier has answered with
\* an AI label above one half, detectAI has returned the verdict of the
\* classifier that answered.
OriginalC16 ==
    (run.called /\ run.pc = "done") =>
        /\ (/\ run.resA.kind \in {"reject", "status"}
            /\ run.resB.kind = "label"
            /\ run.resB.p > 500)
           => /\ run.cloudResult.some
              /\ run.cloudResult.score = roundPercent(run.resB.p)
              /\ run.cloudResult.source = "ChatGPT Detector"
        /\ (/\ run.resB.kind \in {"reject", "status"}
            /\ run.resA.kind = "label"
            /\ run.resA.p > 500)
           => /\ run.cloudResult.some
              /\ run.cloudResult.score = roundPercent(run.resA.p)
              /\ run.cloudResult.source = "RoBERTa Model"

\* C17: when the first Scanner has analysed a text, the texts of the
\* published segments, each without the white space around it, in order and
\* with one space between them, are the text with its white space
\* normalised; nothing of the text is missing, a last fragment without a
\* full stop included.
OriginalC17 ==
    (run.kind = "first" /\ run.called /\ run.pc = "done" /\ scanStatus = "complete")
    => join([k \in DOMAIN aiSegments |-> trim(aiSegments[k].text)], <<" ">>)
           = cleanText(run.text)

OriginalC19 ==
    (run.kind = "image") =>
        /\ progressCalls(run)[1] = 10
        /\ \A k \in 2..Len(progressCalls(run)) :
               progressCalls(run)[k] > progressCalls(run)[k - 1]

\* C20: when detectAI has returned and performAnalysis has published, both
\* classifier requests have settled.
OriginalC20 ==
    (run.called /\ run.pc = "done") =>
        run.resA.kind # "none" /\ run.resB.kind # "none"

\* ------------------------------------------------------------------------
\* Claims on the request bodies, the flags, failed runs and termination
\* ------------------------------------------------------------------------

\* C21: the body of each classifier request is the first 510 characters of
\* the text, the whole text when it is not longer; the two bodies are the
\* same; and the text the pattern detector, the statistical detector and
\* the published segment have is the whole input.
TheoremC21 ==
    (run.kind = "paste" /\ run.called /\ scanStatus # "idle") =>
        /\ bodyA(run.text) = bodyB(run.text)
        /\ Len(bodyA(run.text)) = Min2(Len(pastedText), 510)
        /\ \A i \in 1..Len(bodyA(run.text)) : bodyA(run.text)[i] = pastedText[i]
        /\ run.text = pastedText
        /\ run.patternResult = patternResults[pastedText]
        /\ scanStatus = "complete" =>
              /\ run.statResult = statResults[pastedText]
              /\ aiSegments = <<[text |-> pastedText, isAi |-> aiPercentage > 50]>>

\* A text of more than 510 characters has been analysed; its one phrase of
\* the list lies behind the cut and was found.
WitnessC21 ==
    /\ run.kind = "paste"
    /\ run.called
    /\ scanStatus = "complete"
    /\ Len(pastedText) > 510
    /\ Len(bodyA(run.text)) = 510
    /\ Len(aiSegments[1].text) > 510
    /\ matchedCount[run.text] = 1
    /\ ~includes(toLowerCase(bodyB(run.text)), aiPhrases[6])

\* C22: when the pattern score is above 50, or there is a remote verdict,
\* or the statistical score is above 50, the published percentage is above
\* 50 and the segment is flagged.
OriginalC22 ==
    (/\ run.kind \in {"image", "paste"}
     /\ run.called
     /\ run.pc = "done"
     /\ scanStatus = "complete"
     /\ \/ run.patternResult.score > 50
        \/ run.cloudResult.some
        \/ run.statResult.score > 50)
    => aiPercentage > 50 /\ aiSegments[1].isAi

\* C23: when an image run has ended in failure, the extracted text, the
\* segments, the percentage and the reasoning are what they were before the
\* run started.
OriginalC23 ==
    (/\ run.kind \in {"image", "first"}
     /\ run.pc = "done"
     /\ ~run.called
     /\ scanStatus = "idle")
    => published = run.before

\* C24: a run that is in progress, scanning or analyzing, eventually is
\* complete or idle.
OriginalC24 ==
    (scanStatus \in {"scanning", "analyzing"}) ~> (scanStatus \in {"complete", "idle"})

TheoremC26 ==
    /\ \A t \in AnalysedTexts : statResults[t].score >= 20
    /\ (run.kind \in {"image", "paste"} /\ run.called /\ run.pc = "done") =>
          /\ run.statResult.score >= 20
          /\ run.aiScore >= 20
          /\ scanStatus = "complete" =>
                /\ aiPercentage >= 20
                /\ aiPercentage <= 99
                /\ aiPercentage = Min2(run.aiScore, 99)

\* The lowest score there is has been published as it is: no phrase, no
\* remote verdict, and a statistical score of 20.
WitnessC26 ==
    /\ run.called
    /\ run.pc = "done"
    /\ scanStatus = "complete"
    /\ run.patternResult.score <= 50
    /\ run.resA.kind = "label"
    /\ run.resB.kind = "label"
    /\ ~run.cloudResult.some
    /\ run.statResult.score = 20
    /\ run.aiScore = 20
    /\ aiPercentage = 20

\* C27: when a run has ended, the worker it created is not alive.
OriginalC27 ==
    (run.pc = "done") => run.worker # "alive"

\* C28 as stated: a request is answered with a success status only when the
\* reply of the model service parses as JSON.
OriginalC28 ==
    (request.pc = "done" /\ response.status = 200) => parses(request.reply)

\* C28: POST answers every request, once it has run to its end and not
\* before: 400 when the body has no apiKey, the model service not called;
\* 200 with the parsed text when the service replied a JSON text, bare or in
\* a markdown fence, white space around it allowed; 500 with an error
\* message in every other case.
TheoremC28 ==
    /\ request.pc # "done" => response = NoResponse
    /\ request.called => request.read = "object" /\ request.apiKey = "key"
    /\ request.pc = "done" =>
          /\ response.status \in {200, 400, 500}
          /\ response.status = 400 <=>
                request.read = "object" /\ request.apiKey # "key"
          /\ response.status = 400 => ~request.called
          /\ response.status = 200 <=>
                /\ request.called
                /\ request.settled = "replied"
                /\ \E before \in { <<>>, FenceJson, FenceJson \o <<"\n">>, Fence, <<" ">> },
                      core \in JsonValues,
                      after \in { <<>>, Fence, <<"\n">> \o Fence, <<"\n">> } :
                      /\ request.reply = before \o core \o after
                      /\ response.data = core
          /\ response.status # 200 => response.error /\ response.data = <<>>
          /\ response.status = 200 => ~response.error

\* A JSON text in a fence was replied and answered with a success status.
WitnessC28 ==
    /\ request.pc = "done"
    /\ request.reply = FenceJson \o <<"\n", "{", "}", "\n">> \o Fence
    /\ response.status = 200
    /\ response.data = <<"{", "}">>
====
